---- MODULE Spec2Model ----
(***************************************************************************)
(* Model of test-workspace/hello.py (greeter and clock) and                *)
(* test-workspace/calculator.py (class Calculator).                        *)
(*                                                                         *)
(* Both files are shipped as a fenced block: the first line of each is     *)
(* ```python and the last is ```.  The functions and methods are modelled  *)
(* as the Python between the fences defines them; the run of the file      *)
(* itself (RunScript) is modelled on the file as shipped, which the        *)
(* interpreter rejects at its first line.                                  *)
(*                                                                         *)
(* Text is a sequence of one-character strings.  A number is an exact      *)
(* rational <<n, d>> in lowest terms with d > 0; a Python float result is  *)
(* the double nearest to that rational.  Irrational results (math.sqrt,    *)
(* math.pow with a half-integer exponent) are rounded to the nearest       *)
(* multiple of 1/Resolution, as the C library rounds to the nearest        *)
(* double.  The result of a call is a record [exc, val]: exc is "none"     *)
(* when the call returned val, and the exception's class otherwise.        *)
(***************************************************************************)
EXTENDS Integers, Sequences, FiniteSets, TLC

VARIABLES stdout, clock, ticks, ncalls, call, outcome, exitCode, calc, raisedBefore

vars == <<stdout, clock, ticks, ncalls, call, outcome, exitCode, calc, raisedBefore>>

helloVars == <<stdout, clock, ticks, ncalls, exitCode>>

(***************************************************************************)
(* Bounds.                                                                 *)
(***************************************************************************)
MaxCalls == 2

MaxTicks == 2

MaxNameLen == 2

MaxHalf == 4

MaxSqrtHalf == 18

Resolution == 100

(***************************************************************************)
(* Outcomes of a call.                                                     *)
(***************************************************************************)
None == <<"None">>

Return(v) == [exc |-> "none", val |-> v]

Raise(e) == [exc |-> e, val |-> None]

NoCall == [op |-> "none", args |-> <<>>]

(***************************************************************************)
(* hello.py                                                                *)
(***************************************************************************)
NL == <<"\n">>

HelloPrefix == <<"H", "e", "l", "l", "o", ",", " ">>

GoodbyePrefix == <<"G", "o", "o", "d", "b", "y", "e", ",", " ">>

Bang == <<"!">>

World == <<"W", "o", "r", "l", "d">>

Alice == <<"A", "l", "i", "c", "e">>

NameChars == {"B", "o"}

Names == {World, Alice} \cup UNION {[1..n -> NameChars] : n \in 0..MaxNameLen}

\* print(text): the text followed by a newline is appended to standard output.
print(out, text) == out \o text \o NL

\* greet(name): print(f"Hello, {name}!"), returns None.
greet_noBang(out, name) == [out |-> print(out, HelloPrefix \o name), res |-> Return(None)]

greet(out, name) == [out |-> print(out, HelloPrefix \o name \o Bang), res |-> Return(None)]

\* farewell(name): print(f"Goodbye, {name}!"), returns None.
farewell(out, name) == [out |-> print(out, GoodbyePrefix \o name \o Bang), res |-> Return(None)]

HoursPerDay == 24

MinutesPerHour == 60

SecondsPerMinute == 60

Digits == <<"0", "1", "2", "3", "4", "5", "6", "7", "8", "9">>

DigitChars == {Digits[i] : i \in 1..10}

\* %H, %M, %S: a field as two decimal digits, zero-padded.
Pad2(n) == <<Digits[(n \div 10) + 1], Digits[(n % 10) + 1]>>

\* strftime("%H:%M:%S")
strftime(t) == Pad2(t[1]) \o <<":">> \o Pad2(t[2]) \o <<":">> \o Pad2(t[3])

\* The names the global `datetime` offers after `import datetime`: the
\* module's public attributes.  The class method now() belongs to the class
\* datetime.datetime, not to the module.
datetime_attrs == {"MINYEAR", "MAXYEAR", "UTC", "date", "datetime", "time",
                   "timedelta", "timezone", "tzinfo"}

\* get_current_time(): datetime.now().strftime("%H:%M:%S").  The attribute
\* lookup datetime.now comes first and raises AttributeError when missing.
get_current_time(t) ==
    IF "now" \in datetime_attrs THEN Return(strftime(t)) ELSE Raise("AttributeError")

\* main(): greet("World"); print(get_current_time()); farewell("Alice").
\* An exception of a step propagates and the later steps do not run.
main(out, t) ==
    LET g == greet(out, World)
        c == get_current_time(t)
    IN  IF c.exc # "none"
        THEN [out |-> g.out, res |-> c]
        ELSE LET f == farewell(print(g.out, c.val), Alice)
             IN  [out |-> f.out, res |-> Return(None)]

\* The wall clock: one second later, with carries, wrapping at midnight.
NextSecond(t) ==
    IF t[3] + 1 < SecondsPerMinute THEN <<t[1], t[2], t[3] + 1>>
    ELSE IF t[2] + 1 < MinutesPerHour THEN <<t[1], t[2] + 1, 0>>
    ELSE IF t[1] + 1 < HoursPerDay THEN <<t[1] + 1, 0, 0>>
    ELSE <<0, 0, 0>>

StartTimes == {<<0, 0, 0>>, <<9, 59, 59>>, <<23, 59, 58>>}

Tick ==
    /\ ticks < MaxTicks
    /\ ticks' = ticks + 1
    /\ clock' = NextSecond(clock)
    /\ UNCHANGED <<stdout, ncalls, call, outcome, exitCode, calc, raisedBefore>>

CallGreet(name) ==
    /\ ncalls < MaxCalls
    /\ ncalls' = ncalls + 1
    /\ call' = [op |-> "greet", args |-> <<name>>]
    /\ stdout' = greet(stdout, name).out
    /\ outcome' = greet(stdout, name).res
    /\ UNCHANGED <<clock, ticks, exitCode, calc, raisedBefore>>

CallFarewell(name) ==
    /\ ncalls < MaxCalls
    /\ ncalls' = ncalls + 1
    /\ call' = [op |-> "farewell", args |-> <<name>>]
    /\ stdout' = farewell(stdout, name).out
    /\ outcome' = farewell(stdout, name).res
    /\ UNCHANGED <<clock, ticks, exitCode, calc, raisedBefore>>

CallGetCurrentTime ==
    /\ ncalls < MaxCalls
    /\ ncalls' = ncalls + 1
    /\ call' = [op |-> "get_current_time", args |-> <<>>]
    /\ outcome' = get_current_time(clock)
    /\ UNCHANGED <<stdout, clock, ticks, exitCode, calc, raisedBefore>>

CallMain ==
    /\ ncalls < MaxCalls
    /\ ncalls' = ncalls + 1
    /\ call' = [op |-> "main", args |-> <<>>]
    /\ stdout' = main(stdout, clock).out
    /\ outcome' = main(stdout, clock).res
    /\ UNCHANGED <<clock, ticks, exitCode, calc, raisedBefore>>

\* The character code of the backquote.
Backquote == 96

\* The first line of the file hello.py as shipped, ```python, as the codes
\* of its characters.
hello_first_line == <<Backquote, Backquote, Backquote, 112, 121, 116, 104, 111, 110>>

\* Whether the interpreter compiles a file that starts with this line: a
\* backquote begins no token of Python 3, so a line starting with one is a
\* syntax error.
Compiles(first_line) == first_line = <<>> \/ first_line[1] # Backquote

\* python hello.py in a fresh process.  The file is compiled before any
\* statement runs: a syntax error writes nothing to standard output and
\* ends the interpreter with exit code 1.  Otherwise __name__ == "__main__"
\* and main() runs; an uncaught exception also ends with exit code 1.
RunScript ==
    /\ ncalls = 0
    /\ ncalls' = MaxCalls
    /\ call' = [op |-> "__main__", args |-> <<>>]
    /\ stdout' = IF Compiles(hello_first_line) THEN main(stdout, clock).out ELSE stdout
    /\ outcome' = IF Compiles(hello_first_line) THEN main(stdout, clock).res
                  ELSE Raise("SyntaxError")
    /\ exitCode' = IF outcome'.exc = "none" THEN 0 ELSE 1
    /\ UNCHANGED <<clock, ticks, calc, raisedBefore>>

NoExit == -1

InitHello ==
    /\ stdout = <<>>
    /\ clock \in StartTimes
    /\ ticks = 0
    /\ ncalls = 0
    /\ call = NoCall
    /\ outcome = Return(None)
    /\ exitCode = NoExit
    /\ calc = {}
    /\ raisedBefore = FALSE

NextHello ==
    \/ Tick
    \/ \E name \in Names : CallGreet(name)
    \/ \E name \in Names : CallFarewell(name)
    \/ CallGetCurrentTime
    \/ CallMain
    \/ RunScript

SpecHello == InitHello /\ [][NextHello]_vars

(***************************************************************************)
(* Numbers: exact rationals <<n, d>>, d > 0, in lowest terms.              *)
(***************************************************************************)
Abs(x) == IF x < 0 THEN -x ELSE x

RECURSIVE Gcd(_, _)
Gcd(a, b) == IF b = 0 THEN a ELSE Gcd(b, a % b)

\* The fraction n/d (d # 0) in lowest terms with a positive denominator.
Norm(n, d) ==
    LET g == Gcd(Abs(n), Abs(d))
        sgn == IF d < 0 THEN -1 ELSE 1
    IN  <<(sgn * n) \div g, (sgn * d) \div g>>

Zero == <<0, 1>>

One == <<1, 1>>

IsZero(x) == x[1] = 0

IsNeg(x) == x[1] < 0

IsInteger(x) == x[2] = 1

\* num1 + num2
RAdd(x, y) == Norm(x[1] * y[2] + y[1] * x[2], x[2] * y[2])

\* num1 - num2
RSub(x, y) == Norm(x[1] * y[2] - y[1] * x[2], x[2] * y[2])

\* num1 * num2
RMul(x, y) == Norm(x[1] * y[1], x[2] * y[2])

\* num1 / num2 (true division), num2 # 0
RDiv(x, y) == Norm(x[1] * y[2], x[2] * y[1])

\* floor(sqrt(n)) of a natural number, by bisection on [lo, hi).
RECURSIVE ISqrtIn(_, _, _)
ISqrtIn(n, lo, hi) ==
    IF hi - lo <= 1 THEN lo
    ELSE LET mid == (lo + hi) \div 2
         IN  IF mid * mid <= n THEN ISqrtIn(n, mid, hi) ELSE ISqrtIn(n, lo, mid)

\* The least power of two above sqrt(n), from h upwards.
RECURSIVE ISqrtAbove(_, _)
ISqrtAbove(n, h) == IF h * h > n THEN h ELSE ISqrtAbove(n, 2 * h)

ISqrt(n) == ISqrtIn(n, 0, ISqrtAbove(n, 1))

\* The non-negative square root of x >= 0, rounded to the nearest multiple
\* of 1/Resolution (exact whenever the root is such a multiple).
RSqrt(x) ==
    LET twice == ISqrt((4 * x[1] * Resolution * Resolution) \div x[2])
    IN  Norm((twice + 1) \div 2, Resolution)

\* x ** k for a natural number k
RECURSIVE RPowNat(_, _)
RPowNat(x, k) ==
    IF k = 0 THEN One
    ELSE IF k % 2 = 0 THEN LET h == RPowNat(x, k \div 2) IN RMul(h, h)
    ELSE RMul(x, RPowNat(x, k - 1))

\* x ** y for the arguments on which the C library's pow is defined:
\* y an integer (x # 0 when y < 0), or x >= 0 and 2y an integer.
RPow(x, y) ==
    LET k == Abs(y[1])
        b == IF IsNeg(y) THEN RDiv(One, x) ELSE x
    IN  IF IsInteger(y) THEN RPowNat(b, k) ELSE RSqrt(RPowNat(b, k))

(***************************************************************************)
(* calculator.py: class Calculator.  self is the instance's attribute      *)
(* dictionary, modelled as the set of its (name, value) pairs.             *)
(***************************************************************************)
NewCalculator == {}

add(self, num1, num2) == Return(RAdd(num1, num2))

subtract_swapped(self, num1, num2) == Return(RSub(num2, num1))

subtract(self, num1, num2) == Return(RSub(num1, num2))

multiply(self, num1, num2) == Return(RMul(num1, num2))

divide_checksNumerator(self, num1, num2) ==
    IF IsZero(num1) THEN Raise("ZeroDivisionError") ELSE Return(RDiv(num1, num2))

divide(self, num1, num2) ==
    IF IsZero(num2) THEN Raise("ZeroDivisionError") ELSE Return(RDiv(num1, num2))

\* The exponent range of a double: the finite doubles are below
\* 2 ** MaxFloatExp in magnitude (sys.float_info.max_exp).
MaxFloatExp == 1024

\* floor(log2(x)) for a rational x >= 1.
RECURSIVE FloorLog2(_)
FloorLog2(x) == IF x[1] < 2 * x[2] THEN 0 ELSE 1 + FloorLog2(Norm(x[1], 2 * x[2]))

\* Whether |x| ** y is beyond the double range, |x| ** y >= 2 ** MaxFloatExp
\* (x # 0 when y < 0).  With b = |x| or 1/|x|, y = +-p/q and
\* 2 ** L <= b < 2 ** (L + 1), that is b ** p >= 2 ** (MaxFloatExp * q): true
\* when p * L reaches the bound, false when p * (L + 1) does not exceed it,
\* and decided by the exact powers in between.
Overflows(x, y) ==
    LET m == <<Abs(x[1]), x[2]>>
        b == IF IsNeg(y) THEN RDiv(One, m) ELSE m
        p == Abs(y[1])
        bound == MaxFloatExp * y[2]
    IN  /\ b[1] > b[2]
        /\ \/ p * FloorLog2(b) >= bound
           \/ /\ p * (FloorLog2(b) + 1) > bound
              /\ LET l == RPowNat(b, p)
                     r == RPowNat(<<2, 1>>, bound)
                 IN  l[1] * r[2] >= r[1] * l[2]

\* math.pow(base, exponent): ValueError ("math domain error") for a zero
\* base with a negative exponent and for a negative base with a
\* non-integer exponent; OverflowError ("math range error") when the
\* result is beyond the double range.
power(self, base, exponent) ==
    IF \/ IsZero(base) /\ IsNeg(exponent)
       \/ IsNeg(base) /\ ~IsInteger(exponent)
    THEN Raise("ValueError")
    ELSE IF Overflows(base, exponent) THEN Raise("OverflowError")
    ELSE Return(RPow(base, exponent))

square_root_rejectsZero(self, num) ==
    IF IsNeg(num) \/ IsZero(num) THEN Raise("ValueError") ELSE Return(RSqrt(num))

square_root_negativeRoot(self, num) ==
    IF IsNeg(num) THEN Raise("ValueError") ELSE Return(RSub(Zero, RSqrt(num)))

square_root(self, num) ==
    IF IsNeg(num) THEN Raise("ValueError") ELSE Return(RSqrt(num))

\* The numbers k/2: Python ints and floats with an exact binary fraction.
Half(k) == Norm(k, 2)

Nums == {Half(k) : k \in -MaxHalf..MaxHalf}

SqrtArgs == {Half(k) : k \in -MaxSqrtHalf..MaxSqrtHalf}

\* The arguments of power: the pairs of Nums, and pairs with an exponent at
\* the limit of the double range, +-MaxFloatExp, whose power is a number
\* of the model or overflows: integer bases with the exponent MaxFloatExp
\* and bases of magnitude at most 1 with the exponent -MaxFloatExp.
PowerArgs ==
    (Nums \X Nums)
    \cup {<<b, <<MaxFloatExp, 1>>>> : b \in {x \in Nums : IsInteger(x)}}
    \cup {<<b, <<-MaxFloatExp, 1>>>> : b \in {x \in Nums : Abs(x[1]) <= x[2]}}

\* Whether some call made so far raised.  raisedBefore records it for the
\* calls before the last one: a history kept for the properties, which no
\* method reads.
HasRaised == raisedBefore \/ outcome.exc # "none"

CallAdd(a, b) ==
    /\ call' = [op |-> "add", args |-> <<a, b>>]
    /\ outcome' = add(calc, a, b)
    /\ raisedBefore' = HasRaised
    /\ UNCHANGED <<calc, helloVars>>

CallSubtract(a, b) ==
    /\ call' = [op |-> "subtract", args |-> <<a, b>>]
    /\ outcome' = subtract(calc, a, b)
    /\ raisedBefore' = HasRaised
    /\ UNCHANGED <<calc, helloVars>>

CallMultiply(a, b) ==
    /\ call' = [op |-> "multiply", args |-> <<a, b>>]
    /\ outcome' = multiply(calc, a, b)
    /\ raisedBefore' = HasRaised
    /\ UNCHANGED <<calc, helloVars>>

CallDivide_remembers(a, b) ==
    /\ call' = [op |-> "divide", args |-> <<a, b>>]
    /\ outcome' = divide(calc, a, b)
    /\ raisedBefore' = HasRaised
    /\ calc' = calc \cup {<<"last_error", outcome'.exc>>}
    /\ UNCHANGED helloVars

CallDivide(a, b) ==
    /\ call' = [op |-> "divide", args |-> <<a, b>>]
    /\ outcome' = divide(calc, a, b)
    /\ raisedBefore' = HasRaised
    /\ UNCHANGED <<calc, helloVars>>

CallPower(a, b) ==
    /\ call' = [op |-> "power", args |-> <<a, b>>]
    /\ outcome' = power(calc, a, b)
    /\ raisedBefore' = HasRaised
    /\ UNCHANGED <<calc, helloVars>>

CallSquareRoot(n) ==
    /\ call' = [op |-> "square_root", args |-> <<n>>]
    /\ outcome' = square_root(calc, n)
    /\ raisedBefore' = HasRaised
    /\ UNCHANGED <<calc, helloVars>>

InitCalc ==
    /\ calc = NewCalculator
    /\ call = NoCall
    /\ outcome = Return(None)
    /\ stdout = <<>>
    /\ clock = <<0, 0, 0>>
    /\ ticks = 0
    /\ ncalls = 0
    /\ exitCode = NoExit
    /\ raisedBefore = FALSE

NextCalc ==
    \/ \E a, b \in Nums : CallAdd(a, b)
    \/ \E a, b \in Nums : CallSubtract(a, b)
    \/ \E a, b \in Nums : CallMultiply(a, b)
    \/ \E a, b \in Nums : CallDivide(a, b)
    \/ \E ab \in PowerArgs : CallPower(ab[1], ab[2])
    \/ \E n \in SqrtArgs : CallSquareRoot(n)

SpecCalc == InitCalc /\ [][NextCalc]_vars

(***************************************************************************)
(* Properties of hello.py, checked under SpecHello.                        *)
(***************************************************************************)
\* The lines of a text in which every line ends with a newline.
RECURSIVE LinesFrom(_, _, _)
LinesFrom(s, i, cur) ==
    IF i > Len(s) THEN <<>>
    ELSE IF s[i] = "\n" THEN <<cur>> \o LinesFrom(s, i + 1, <<>>)
    ELSE LinesFrom(s, i + 1, Append(cur, s[i]))

Lines(s) == LinesFrom(s, 1, <<>>)

\* \d{2}:\d{2}:\d{2}
IsTimeString(s) ==
    /\ Len(s) = 8
    /\ s[3] = ":"
    /\ s[6] = ":"
    /\ \A i \in {1, 2, 4, 5, 7, 8} : s[i] \in DigitChars

\* C1: a run of main, as the first call or as the run of the script,
\* writes exactly three lines: 'Hello, World!', then a time string
\* HH:MM:SS, then 'Goodbye, Alice!'.
C1_MainThreeLines ==
    ((call.op = "main" /\ ncalls = 1) \/ call.op = "__main__") =>
        /\ Len(Lines(stdout)) = 3
        /\ Lines(stdout)[1] = HelloPrefix \o World \o Bang
        /\ IsTimeString(Lines(stdout)[2])
        /\ Lines(stdout)[3] = GoodbyePrefix \o Alice \o Bang

\* C2: every execution of main ends without an error, and the script run
\* ends with exit code 0.
C2_MainExitsZero ==
    call.op \in {"main", "__main__"} =>
        /\ outcome.exc = "none"
        /\ call.op = "__main__" => exitCode = 0

\* C3: get_current_time() raises no error and returns an 8-character
\* string matching \d{2}:\d{2}:\d{2}.
C3_TimeFormat ==
    call.op = "get_current_time" =>
        /\ outcome.exc = "none"
        /\ IsTimeString(outcome.val)

\* C9: a call greet(name) appends exactly the line 'Hello, ' + name + '!'
\* to standard output, a call farewell(name) exactly the line
\* 'Goodbye, ' + name + '!'; each returns None and raises nothing.
C9_GreetFarewellOneLine ==
    [][/\ (ncalls' = ncalls + 1 /\ call'.op = "greet") =>
            /\ stdout' = stdout \o HelloPrefix \o call'.args[1] \o Bang \o NL
            /\ Len(Lines(stdout')) = Len(Lines(stdout)) + 1
            /\ outcome' = [exc |-> "none", val |-> None]
       /\ (ncalls' = ncalls + 1 /\ call'.op = "farewell") =>
            /\ stdout' = stdout \o GoodbyePrefix \o call'.args[1] \o Bang \o NL
            /\ Len(Lines(stdout')) = Len(Lines(stdout)) + 1
            /\ outcome' = [exc |-> "none", val |-> None]]_vars

C9_Witness ==
    /\ ncalls = 2
    /\ call = [op |-> "farewell", args |-> <<Alice>>]
    /\ Lines(stdout) = <<HelloPrefix \o World \o Bang, GoodbyePrefix \o Alice \o Bang>>

(***************************************************************************)
(* Properties of calculator.py, checked under SpecCalc.                    *)
(***************************************************************************)
\* 2x, an integer for the numbers k/2.
Twice(x) == x[1] * (2 \div x[2])

\* C4: power never raises, whatever its numeric arguments, and the only
\* errors of the Calculator are ZeroDivisionError from divide and
\* ValueError from square_root.
C4_PowerNeverRaises ==
    /\ call.op = "power" => outcome.exc = "none"
    /\ outcome.exc # "none" =>
          \/ call.op = "divide" /\ outcome.exc = "ZeroDivisionError"
          \/ call.op = "square_root" /\ outcome.exc = "ValueError"

\* C5: divide(a, b) raises ZeroDivisionError exactly when b == 0, returning
\* nothing; for b # 0 it returns the quotient q, q * b == a.
C5_DivideByZero ==
    call.op = "divide" =>
        LET a == call.args[1]
            b == call.args[2]
            q == outcome.val
        IN  /\ b[1] = 0 => outcome = [exc |-> "ZeroDivisionError", val |-> None]
            /\ b[1] # 0 =>
                  /\ outcome.exc = "none"
                  /\ q[2] > 0
                  /\ q[1] * b[1] * a[2] = a[1] * q[2] * b[2]

C5_Witness ==
    /\ call = [op |-> "divide", args |-> <<<<0, 1>>, <<0, 1>>>>]
    /\ outcome.exc = "ZeroDivisionError"

\* C6: square_root(n) raises ValueError exactly when n < 0, returning
\* nothing; every n >= 0, zero included, returns a value.
C6_SquareRootDomain ==
    call.op = "square_root" =>
        LET n == call.args[1]
        IN  /\ n[1] < 0 => outcome = [exc |-> "ValueError", val |-> None]
            /\ n[1] >= 0 => outcome.exc = "none" /\ outcome.val # None

C6_Witness ==
    /\ call = [op |-> "square_root", args |-> <<<<0, 1>>>>]
    /\ outcome.exc = "none"

\* C7: add(a, b) is a + b, subtract(a, b) is a - b, multiply(a, b) is
\* a * b, and none of the three raises.  With a = x/2 and b = y/2 the
\* results are (x + y)/2, (x - y)/2 and (x * y)/4.
C7_AddSubtractMultiply ==
    call.op \in {"add", "subtract", "multiply"} =>
        LET x == Twice(call.args[1])
            y == Twice(call.args[2])
            r == outcome.val
        IN  /\ outcome.exc = "none"
            /\ r[2] > 0
            /\ call.op = "add" => 2 * r[1] = (x + y) * r[2]
            /\ call.op = "subtract" => 2 * r[1] = (x - y) * r[2]
            /\ call.op = "multiply" => 4 * r[1] = (x * y) * r[2]

C7_Witness ==
    /\ call = [op |-> "subtract", args |-> <<<<3, 2>>, <<-2, 1>>>>]
    /\ outcome = [exc |-> "none", val |-> <<7, 2>>]

\* C8: for n >= 0 the result r of square_root(n) is the non-negative root:
\* r >= 0, r * r == n when n is a perfect square, and otherwise r is the
\* multiple of 1/Resolution nearest to the root.
C8_NonNegativeRoot ==
    (call.op = "square_root" /\ call.args[1][1] >= 0) =>
        LET n == call.args[1]
            r == outcome.val
            m == 2 * r[1] * (Resolution \div r[2])
            scaled == 4 * n[1] * Resolution * Resolution
        IN  /\ outcome.exc = "none"
            /\ r[1] >= 0 /\ r[2] > 0
            /\ \A k \in 0..MaxSqrtHalf : (n = <<k * k, 1>>) => r = <<k, 1>>
            /\ Resolution % r[2] = 0
            /\ m > 0 => (m - 1) * (m - 1) * n[2] <= scaled
            /\ scaled < (m + 1) * (m + 1) * n[2]

C8_Witness ==
    /\ call = [op |-> "square_root", args |-> <<<<9, 1>>>>]
    /\ outcome = [exc |-> "none", val |-> <<3, 1>>]

\* The result of a call on a Calculator whose attributes are self.
Eval(self, c) ==
    IF c.op = "add" THEN add(self, c.args[1], c.args[2])
    ELSE IF c.op = "subtract" THEN subtract(self, c.args[1], c.args[2])
    ELSE IF c.op = "multiply" THEN multiply(self, c.args[1], c.args[2])
    ELSE IF c.op = "divide" THEN divide(self, c.args[1], c.args[2])
    ELSE IF c.op = "power" THEN power(self, c.args[1], c.args[2])
    ELSE square_root(self, c.args[1])

\* C10: every call, whether it returns or raises and whatever calls came
\* before it, leaves the Calculator's state as it was, and its result is
\* the result of the same call on a new Calculator.
C10_Stateless ==
    [][/\ calc' = calc
       /\ outcome' = Eval(NewCalculator, call')]_vars

C10_Witness ==
    /\ raisedBefore
    /\ outcome.exc # "none"
    /\ call = [op |-> "divide", args |-> <<<<1, 1>>, <<0, 1>>>>]
    /\ calc = NewCalculator

====
